---- MODULE Spec2Model ----
(***************************************************************************)
(* Request Coordinator of the GeneralControlServer                         *)
(* (src/src/communication/communication_handler.rs).                       *)
(*                                                                         *)
(* Every handler is an async task.  A task is split at the points where    *)
(* it takes or gives up a guard of the tokio RwLock around ServerState or  *)
(* of the futures Mutex around the ExecutionHandler; the code between two  *)
(* such points is one action.  The room handler (rooms::room_handler),     *)
(* the response sink (send_to_requester_channel), the data fetcher and     *)
(* the connection set-up / clean-up are not part of the sources at hand    *)
(* and are modelled from the specification.                                *)
(***************************************************************************)
EXTENDS Integers, FiniteSets, Sequences, TLC

\* ---------------------------------------------------------------- bounds
\* user ids a payload can name, and how many of them are connected at first
MaxUsers == 3
MaxConnected == 2
MaxRooms == 2
MaxTasks == 2
\* requests issued in one run of Spec / of JoinSpec
MaxRequests == 2
MaxJoinRequests == 2
\* rooms and requests in one run of TopSpec
MaxTopRooms == 3
MaxTopRequests == 2
\* requests issued in one run of RoleSpec
MaxRoleRequests == 2

UserIds == 1..MaxUsers
RoomIds == 1..MaxRooms
TaskIds == 1..MaxTasks
TopRoomIds == 1..MaxTopRooms

\* ------------------------------------------------------------ constants
\* current_room_id of a user that is in no room
NoRoom == -1

MutatingOps == {"create_room", "join_room", "block_user_from_room",
                "add_speaker", "remove_speaker", "raise_hand", "lower_hand"}
RoleOps == {"block_user_from_room", "add_speaker", "remove_speaker",
            "raise_hand", "lower_hand"}
SpeakerOrHandOps == {"add_speaker", "remove_speaker", "raise_hand", "lower_hand"}
ReadOnlyOps == {"web_rtc", "get_follow_list"}
Ops == MutatingOps \cup ReadOnlyOps
\* the operations that only read the state, get_top_rooms included
FetchOps == ReadOnlyOps \cup {"get_top_rooms"}

\* ---------------------------------------------------------------- state
VARIABLES
    active_users,    \* ServerState.active_users: user id -> [current_room_id]
    rooms,           \* ServerState.rooms: room id -> Room
    room_blocks,     \* stored room blocks: room id -> blocked user ids
    next_room_id,    \* id the next created room gets
    readers,         \* tasks holding a read guard of server_state
    writer,          \* tasks holding the write guard of server_state (at most one)
    handler_owner,   \* tasks holding the guard of execution_handler (at most one)
    tasks,           \* one record per request task
    outbox,          \* user id -> set of responses written to its connection
    requests         \* number of requests issued so far

vars == <<active_users, rooms, room_blocks, next_room_id, readers, writer,
          handler_owner, tasks, outbox, requests>>

world == <<active_users, rooms>>

\* BasicResponse {response_op_code, response_containing_data}
BasicResponse(op_code, data) ==
    [response_op_code |-> op_code, response_containing_data |-> data]

IdleTask ==
    [op |-> "none", requester_id |-> 0, parse_ok |-> FALSE,
     room_id |-> 0, peer_id |-> 0, public |-> FALSE,
     pc |-> "idle", outcome |-> "none", reason |-> "none",
     pre_at_validation |-> FALSE, pre_at_commit |-> FALSE,
     rejections |-> 0, response |-> <<>>,
     all_rooms |-> <<>>, communication_rooms |-> <<>>,
     snapshot |-> <<>>, fetch_errors |-> {}, sent |-> 0,
     delivered |-> FALSE]

\* A Room as the room handler creates it.
NewRoom(owner, public) ==
    [owner_user_id |-> owner, user_ids |-> {owner}, public |-> public,
     muted |-> {}, deaf |-> {}, speakers |-> {}, raised_hands |-> {}]

EmptyMap == [x \in {} |-> x]
Without(f, k) == [x \in DOMAIN f \ {k} |-> f[x]]

IsUser(u) == u \in DOMAIN active_users
IsRoom(r) == r \in DOMAIN rooms

\* ----------------------------------------------------- the RwLock, Mutex
\* tokio::sync::RwLock is write-preferring: a read guard is not granted
\* while a task waits for the write guard.
AwaitWritePcs == {"await_write", "await_write_err", "await_write_follow",
                  "await_write_top"}
WriterWaiting == \E t \in TaskIds : tasks[t].pc \in AwaitWritePcs

CanRead == writer = {} /\ ~WriterWaiting
CanWrite == writer = {} /\ readers = {}
\* a write by something that is not a request task (the disconnect clean-up)
CanWriteOutside == CanWrite /\ ~WriterWaiting

\* ------------------------------------------------ collaborators (helpers)
\* send_to_requester_channel: looks the requester's connection up in the
\* state behind the write guard and writes the response; nothing happens
\* when the user is gone.
send_to_requester_channel(data, requester_id, op_code) ==
    IF IsUser(requester_id)
    THEN [outbox EXCEPT ![requester_id] = @ \cup {BasicResponse(op_code, data)}]
    ELSE outbox

\* A rejection that tells the requester which check failed.
ErrorResponseWithDetail(reason) == BasicResponse("invalid_request", reason)

\* What send_error_response_to_requester hands to the response sink,
\* whatever made the request fail.
ErrorResponse(reason) == BasicResponse("invalid_request", "issue with request")

\* data_fetcher::get_blocked_user_ids_for_room: (encountered_error, user ids)
get_blocked_user_ids_for_room(room_id) ==
    {<<FALSE, room_blocks[room_id]>>, <<TRUE, {}>>}

\* ------------------------------------- the checks the coordinator makes
\* The check of create_room without the test of the room the user is in.
create_room_check_user_only(requester_id) == IsUser(requester_id)

\* create_room: the user exists and is in no room
create_room_check(requester_id) ==
    /\ IsUser(requester_id)
    /\ active_users[requester_id].current_room_id = NoRoom

\* join_room: active_users.get(&peer_id).unwrap() is reached when the room
\* exists (&& short-circuits) and panics when the peer is no active user
join_room_unwrap_panics(room_id, peer_id) ==
    IsRoom(room_id) /\ ~IsUser(peer_id)

\* join_room: the room exists, the peer is in no room, the room is public
join_room_check(room_id, peer_id) ==
    /\ IsRoom(room_id)
    /\ active_users[peer_id].current_room_id = NoRoom
    /\ rooms[room_id].public

\* The second check of join_room with the test of the error flag inverted.
join_room_block_check_error_flag_inverted(blocked_result, peer_id) ==
    blocked_result[1] = TRUE /\ peer_id \notin blocked_result[2]

\* The second check of join_room taking a failed fetch for an empty set.
join_room_block_check_ignoring_error(blocked_result, peer_id) ==
    peer_id \notin blocked_result[2]

\* join_room: nothing went wrong gathering the blocked ids and the peer is
\* not one of them
join_room_block_check(blocked_result, peer_id) ==
    blocked_result[1] = FALSE /\ peer_id \notin blocked_result[2]

\* The membership check without the test of the target user.
both_in_room_check_requester_only(room_id, requester_id, peer_id) ==
    /\ IsRoom(room_id)
    /\ requester_id \in rooms[room_id].user_ids

\* block_user_from_room, add_or_remove_speaker, raise_hand_or_lower_hand:
\* the room exists and both users are in it
both_in_room_check(room_id, requester_id, peer_id) ==
    /\ IsRoom(room_id)
    /\ requester_id \in rooms[room_id].user_ids
    /\ peer_id \in rooms[room_id].user_ids

\* communication_handler_helpers::web_rtc_request_is_valid
web_rtc_request_is_valid(room_id, peer_id, requester_id) ==
    /\ IsUser(requester_id)
    /\ peer_id = requester_id
    /\ active_users[requester_id].current_room_id = room_id

\* Table 1: the precondition of a mutating request, in the current state
Precondition(k) ==
    CASE k.op = "create_room" ->
            /\ k.requester_id \in DOMAIN active_users
            /\ active_users[k.requester_id].current_room_id = NoRoom
      [] k.op = "join_room" ->
            /\ k.room_id \in DOMAIN rooms
            /\ k.peer_id \in DOMAIN active_users
            /\ active_users[k.peer_id].current_room_id = NoRoom
            /\ rooms[k.room_id].public
            /\ k.peer_id \notin room_blocks[k.room_id]
      [] k.op \in RoleOps ->
            /\ k.room_id \in DOMAIN rooms
            /\ k.requester_id \in rooms[k.room_id].user_ids
            /\ k.peer_id \in rooms[k.room_id].user_ids
      [] OTHER -> TRUE

\* why the check of a request fails in the current state ("none": it holds)
FailureReason(k) ==
    CASE k.op = "create_room" ->
            IF ~IsUser(k.requester_id) THEN "no_user"
            ELSE IF active_users[k.requester_id].current_room_id # NoRoom
                 THEN "in_room" ELSE "none"
      [] k.op = "join_room" ->
            IF ~IsRoom(k.room_id) THEN "no_room"
            ELSE IF active_users[k.peer_id].current_room_id # NoRoom
                 THEN "in_room"
            ELSE IF ~rooms[k.room_id].public THEN "private" ELSE "none"
      [] k.op \in RoleOps ->
            IF ~IsRoom(k.room_id) THEN "no_room"
            ELSE IF both_in_room_check(k.room_id, k.requester_id, k.peer_id)
                 THEN "none" ELSE "not_member"
      [] OTHER ->
            IF web_rtc_request_is_valid(k.room_id, k.peer_id, k.requester_id)
            THEN "none" ELSE "not_valid"

\* The server with its first connections authenticated: these users are in
\* the user map and in no room, there is no room and no request.
Init ==
    /\ active_users = [u \in 1..MaxConnected |-> [current_room_id |-> NoRoom]]
    /\ rooms = EmptyMap
    /\ room_blocks = [r \in RoomIds |-> {}]
    /\ next_room_id = 1
    /\ readers = {}
    /\ writer = {}
    /\ handler_owner = {}
    /\ tasks = [t \in TaskIds |-> IdleTask]
    /\ outbox = [u \in UserIds |-> {}]
    /\ requests = 0

\* ------------------------------------------------------ the room handler
\* A user taken out of a room: out of its membership and overlay sets.
Evicted(room, u) ==
    [room EXCEPT !.user_ids = @ \ {u}, !.muted = @ \ {u}, !.deaf = @ \ {u},
                 !.speakers = @ \ {u}, !.raised_hands = @ \ {u}]

\* rooms::room_handler::create_room: a new room owned by the requester,
\* who becomes its first member.  The handler checks nothing again.
room_handler_create_room(requester_id, public) ==
    IF IsUser(requester_id)
    THEN /\ rooms' = rooms @@ (next_room_id :> NewRoom(requester_id, public))
         /\ active_users' =
                [active_users EXCEPT ![requester_id].current_room_id = next_room_id]
         /\ next_room_id' = next_room_id + 1
         /\ UNCHANGED room_blocks
    ELSE UNCHANGED <<rooms, active_users, next_room_id, room_blocks>>

\* rooms::room_handler::join_room: the peer becomes a member of the room.
room_handler_join_room(room_id, peer_id) ==
    IF IsRoom(room_id) /\ IsUser(peer_id)
    THEN /\ rooms' = [rooms EXCEPT ![room_id].user_ids = @ \cup {peer_id}]
         /\ active_users' = [active_users EXCEPT ![peer_id].current_room_id = room_id]
         /\ UNCHANGED <<next_room_id, room_blocks>>
    ELSE UNCHANGED <<rooms, active_users, next_room_id, room_blocks>>

\* rooms::room_handler::block_user_from_room: the owner check happens here;
\* the user is stored as blocked and taken out of the room.
room_handler_block_user_from_room(user_id, room_id, requester_id) ==
    IF /\ IsRoom(room_id)
       /\ rooms[room_id].owner_user_id = requester_id
       /\ user_id # requester_id
    THEN /\ room_blocks' = [room_blocks EXCEPT ![room_id] = @ \cup {user_id}]
         /\ rooms' = [rooms EXCEPT ![room_id] = Evicted(@, user_id)]
         /\ active_users' =
                IF IsUser(user_id) /\ active_users[user_id].current_room_id = room_id
                THEN [active_users EXCEPT ![user_id].current_room_id = NoRoom]
                ELSE active_users
         /\ UNCHANGED next_room_id
    ELSE UNCHANGED <<rooms, active_users, next_room_id, room_blocks>>

\* rooms::room_handler::add_speaker / remove_speaker / raise_hand / lower_hand
room_handler_role(op, room_id, peer_id, requester_id) ==
    /\ rooms' =
        IF ~IsRoom(room_id) THEN rooms
        ELSE CASE op = "add_speaker" ->
                    [rooms EXCEPT ![room_id].speakers = @ \cup {peer_id},
                                  ![room_id].raised_hands = @ \ {peer_id}]
               [] op = "remove_speaker" ->
                    [rooms EXCEPT ![room_id].speakers = @ \ {peer_id}]
               [] op = "raise_hand" ->
                    [rooms EXCEPT ![room_id].raised_hands = @ \cup {requester_id}]
               [] OTHER ->
                    [rooms EXCEPT ![room_id].raised_hands = @ \ {peer_id}]
    /\ UNCHANGED <<active_users, next_room_id, room_blocks>>

\* ------------------------------------------------- connections come and go
\* A connection closes: the user leaves the user map and its current room;
\* a room that becomes empty is destroyed.
Disconnect(u) ==
    /\ IsUser(u)
    /\ CanWriteOutside
    /\ LET r == active_users[u].current_room_id IN
        /\ active_users' = Without(active_users, u)
        /\ rooms' =
            IF r # NoRoom /\ IsRoom(r)
            THEN IF Evicted(rooms[r], u).user_ids = {}
                 THEN Without(rooms, r)
                 ELSE [rooms EXCEPT ![r] = Evicted(@, u)]
            ELSE rooms
    /\ outbox' = [outbox EXCEPT ![u] = {}]
    /\ UNCHANGED <<room_blocks, next_room_id, readers, writer,
                   handler_owner, tasks, requests>>

\* ------------------------------------------------------------- requests
Finished(t) == tasks[t].pc \in {"idle", "done"}

CreatesInFlight ==
    Cardinality({t \in TaskIds : ~Finished(t) /\ tasks[t].op = "create_room"})

\* The requests a connected user can send: an operation and its payload,
\* which parses or does not.
Payloads(op) ==
    IF op = "create_room"
    THEN {[parse_ok |-> TRUE, room_id |-> 0, peer_id |-> 0, public |-> b] :
            b \in BOOLEAN}
    ELSE IF op = "get_follow_list"
    THEN {[parse_ok |-> TRUE, room_id |-> 0, peer_id |-> u, public |-> FALSE] :
            u \in UserIds}
    ELSE {[parse_ok |-> TRUE, room_id |-> r, peer_id |-> u, public |-> FALSE] :
            r \in RoomIds, u \in UserIds}

Malformed == [parse_ok |-> FALSE, room_id |-> 0, peer_id |-> 0, public |-> FALSE]

\* The transport hands a request of a connected user to a new task.
Start(t, op, requester_id, payload) ==
    /\ Finished(t)
    /\ \A s \in TaskIds : s < t => ~Finished(s)
    /\ IsUser(requester_id)
    /\ op = "create_room" => next_room_id + CreatesInFlight <= MaxRooms
    /\ tasks' = [tasks EXCEPT ![t] =
            [IdleTask EXCEPT !.op = op, !.requester_id = requester_id,
                             !.parse_ok = payload.parse_ok,
                             !.room_id = payload.room_id,
                             !.peer_id = payload.peer_id,
                             !.public = payload.public,
                             !.pc = "start"]]
    /\ requests' = requests + 1
    /\ UNCHANGED <<active_users, rooms, room_blocks, next_room_id, readers,
                   writer, handler_owner, outbox>>

\* ------------------------------------------------- the request coordinator
Task(t, op, pc) == tasks[t].op = op /\ tasks[t].pc = pc

\* serde_json::from_str(..)? before the state is read: an Err ends the task
ParseFirst(t) ==
    /\ tasks' = [tasks EXCEPT ![t] =
            IF @.parse_ok THEN [@ EXCEPT !.pc = "await_read"]
            ELSE [@ EXCEPT !.pc = "done", !.outcome = "parse_err"]]
    /\ UNCHANGED <<active_users, rooms, room_blocks, next_room_id, readers,
                   writer, handler_owner, outbox, requests>>

\* server_state.read().await and the check, for a request already parsed
ReadAndCheck(t, holds) ==
    /\ CanRead
    /\ readers' = readers \cup {t}
    /\ tasks' = [tasks EXCEPT ![t] =
            IF holds
            THEN [@ EXCEPT !.pc = "validated",
                           !.pre_at_validation = Precondition(tasks[t])]
            ELSE [@ EXCEPT !.pc = "rejecting", !.reason = FailureReason(tasks[t]),
                           !.pre_at_validation = Precondition(tasks[t])]]
    /\ UNCHANGED <<active_users, rooms, room_blocks, next_room_id, writer,
                   handler_owner, outbox, requests>>

\* server_state.read().await, then serde_json::from_str(..)?, then the check
ReadParseAndCheck(t, holds) ==
    /\ CanRead
    /\ readers' = IF tasks[t].parse_ok THEN readers \cup {t} ELSE readers
    /\ tasks' = [tasks EXCEPT ![t] =
            IF ~@.parse_ok THEN [@ EXCEPT !.pc = "done", !.outcome = "parse_err"]
            ELSE IF holds
            THEN [@ EXCEPT !.pc = "validated",
                           !.pre_at_validation = Precondition(tasks[t])]
            ELSE [@ EXCEPT !.pc = "rejecting", !.reason = FailureReason(tasks[t]),
                           !.pre_at_validation = Precondition(tasks[t])]]
    /\ UNCHANGED <<active_users, rooms, room_blocks, next_room_id, writer,
                   handler_owner, outbox, requests>>

create_room_parse(t) == Task(t, "create_room", "start") /\ ParseFirst(t)

create_room_validate(t) ==
    /\ Task(t, "create_room", "await_read")
    /\ ReadAndCheck(t, create_room_check(tasks[t].requester_id))

block_user_from_room_parse(t) ==
    Task(t, "block_user_from_room", "start") /\ ParseFirst(t)

block_user_from_room_validate(t) ==
    /\ Task(t, "block_user_from_room", "await_read")
    /\ ReadAndCheck(t, both_in_room_check(tasks[t].room_id,
                                          tasks[t].requester_id, tasks[t].peer_id))

\* join_room up to the first check: the read guard, the parse, the unwrap
join_room_validate(t) ==
    /\ Task(t, "join_room", "start")
    /\ CanRead
    /\ LET k == tasks[t] IN
        IF ~k.parse_ok
        THEN /\ tasks' = [tasks EXCEPT ![t] =
                    [@ EXCEPT !.pc = "done", !.outcome = "parse_err"]]
             /\ UNCHANGED readers
        ELSE IF join_room_unwrap_panics(k.room_id, k.peer_id)
        THEN /\ tasks' = [tasks EXCEPT ![t] =
                    [@ EXCEPT !.pc = "done", !.outcome = "panicked"]]
             /\ UNCHANGED readers
        ELSE /\ readers' = readers \cup {t}
             /\ tasks' = [tasks EXCEPT ![t] =
                    IF join_room_check(k.room_id, k.peer_id)
                    THEN [@ EXCEPT !.pc = "await_handler",
                                   !.pre_at_validation = Precondition(k)]
                    ELSE [@ EXCEPT !.pc = "rejecting", !.reason = FailureReason(k),
                                   !.pre_at_validation = Precondition(k)]]
    /\ UNCHANGED <<active_users, rooms, room_blocks, next_room_id, writer,
                   handler_owner, outbox, requests>>

\* join_room: execution_handler.lock().await, the blocked ids, the second
\* check.  The handler guard lives to the end of the if block: it is kept
\* when the check passes and given up before the error response otherwise.
join_room_fetch(t) ==
    /\ Task(t, "join_room", "await_handler")
    /\ handler_owner = {}
    /\ \E blocked_result \in get_blocked_user_ids_for_room(tasks[t].room_id) :
        IF join_room_block_check(blocked_result, tasks[t].peer_id)
        THEN /\ handler_owner' = {t}
             /\ tasks' = [tasks EXCEPT ![t] =
                    [@ EXCEPT !.pc = "validated",
                              !.fetch_errors = IF blocked_result[1]
                                               THEN {tasks[t].room_id} ELSE {}]]
        ELSE /\ UNCHANGED handler_owner
             /\ tasks' = [tasks EXCEPT ![t] =
                    [@ EXCEPT !.pc = "rejecting",
                              !.fetch_errors = IF blocked_result[1]
                                               THEN {tasks[t].room_id} ELSE {},
                              !.reason = IF blocked_result[1] THEN "fetch_err"
                                         ELSE "blocked"]]
    /\ UNCHANGED <<active_users, rooms, room_blocks, next_room_id, readers,
                   writer, outbox, requests>>

add_or_remove_speaker_validate(t) ==
    /\ tasks[t].op \in {"add_speaker", "remove_speaker"}
    /\ tasks[t].pc = "start"
    /\ ReadParseAndCheck(t, both_in_room_check(tasks[t].room_id,
                                               tasks[t].requester_id, tasks[t].peer_id))

raise_hand_or_lower_hand_validate(t) ==
    /\ tasks[t].op \in {"raise_hand", "lower_hand"}
    /\ tasks[t].pc = "start"
    /\ ReadParseAndCheck(t, both_in_room_check(tasks[t].room_id,
                                               tasks[t].requester_id, tasks[t].peer_id))

\* A request that passed its check and goes for the write guard with its
\* read guard still in hand.
drop_read_state_keeping_guard(t) ==
    /\ tasks[t].pc = "validated"
    /\ tasks' = [tasks EXCEPT ![t].pc = "await_write"]
    /\ UNCHANGED <<active_users, rooms, room_blocks, next_room_id, readers,
                   writer, handler_owner, outbox, requests>>

\* drop(read_state) of a request that passed its check
drop_read_state(t) ==
    /\ tasks[t].pc = "validated"
    /\ readers' = readers \ {t}
    /\ tasks' = [tasks EXCEPT ![t].pc = "await_write"]
    /\ UNCHANGED <<active_users, rooms, room_blocks, next_room_id, writer,
                   handler_owner, outbox, requests>>

\* send_error_response_to_requester: drop(read_state)
send_error_response_drop(t) ==
    /\ tasks[t].pc = "rejecting"
    /\ readers' = readers \ {t}
    /\ tasks' = [tasks EXCEPT ![t].pc = "await_write_err"]
    /\ UNCHANGED <<active_users, rooms, room_blocks, next_room_id, writer,
                   handler_owner, outbox, requests>>

\* server_state.write().await is granted
WritingPc(pc) ==
    CASE pc = "await_write" -> "writing"
      [] pc = "await_write_err" -> "writing_err"
      [] pc = "await_write_top" -> "writing_top"
      [] OTHER -> "writing_follow"

\* A task that goes on as if it had the write guard, without waiting for it.
acquire_write_without_guard(t) ==
    /\ tasks[t].pc \in AwaitWritePcs
    /\ tasks' = [tasks EXCEPT ![t].pc = WritingPc(@)]
    /\ UNCHANGED <<active_users, rooms, room_blocks, next_room_id, readers,
                   writer, handler_owner, outbox, requests>>

acquire_write(t) ==
    /\ tasks[t].pc \in AwaitWritePcs
    /\ CanWrite
    /\ writer' = {t}
    /\ tasks' = [tasks EXCEPT ![t].pc = WritingPc(@)]
    /\ UNCHANGED <<active_users, rooms, room_blocks, next_room_id, readers,
                   handler_owner, outbox, requests>>

\* The room handler runs behind the write guard; the guards are given up
\* when the coordinator returns.
Committed(t) ==
    /\ tasks' = [tasks EXCEPT ![t] =
            [@ EXCEPT !.pc = "done", !.outcome = "mutated",
                      !.pre_at_commit = Precondition(tasks[t])]]
    /\ writer' = {}
    /\ handler_owner' = handler_owner \ {t}
    /\ UNCHANGED <<readers, outbox, requests>>

create_room_commit(t) ==
    /\ Task(t, "create_room", "writing")
    /\ room_handler_create_room(tasks[t].requester_id, tasks[t].public)
    /\ Committed(t)

block_user_from_room_commit(t) ==
    /\ Task(t, "block_user_from_room", "writing")
    /\ room_handler_block_user_from_room(tasks[t].peer_id, tasks[t].room_id,
                                         tasks[t].requester_id)
    /\ Committed(t)

join_room_commit(t) ==
    /\ Task(t, "join_room", "writing")
    /\ room_handler_join_room(tasks[t].room_id, tasks[t].peer_id)
    /\ Committed(t)

add_or_remove_speaker_commit(t) ==
    /\ tasks[t].op \in {"add_speaker", "remove_speaker"}
    /\ tasks[t].pc = "writing"
    /\ room_handler_role(tasks[t].op, tasks[t].room_id, tasks[t].peer_id,
                         tasks[t].requester_id)
    /\ Committed(t)

raise_hand_or_lower_hand_commit(t) ==
    /\ tasks[t].op \in {"raise_hand", "lower_hand"}
    /\ tasks[t].pc = "writing"
    /\ room_handler_role(tasks[t].op, tasks[t].room_id, tasks[t].peer_id,
                         tasks[t].requester_id)
    /\ Committed(t)

\* send_error_response_to_requester behind the write guard
send_error_response_to_requester(t) ==
    /\ tasks[t].pc = "writing_err"
    /\ outbox' = send_to_requester_channel(
                    ErrorResponse(tasks[t].reason).response_containing_data,
                    tasks[t].requester_id,
                    ErrorResponse(tasks[t].reason).response_op_code)
    /\ tasks' = [tasks EXCEPT ![t] =
            [@ EXCEPT !.pc = "done", !.outcome = "rejected",
                      !.rejections = @ + 1,
                      !.pre_at_commit = Precondition(tasks[t]),
                      !.delivered = IsUser(tasks[t].requester_id),
                      !.response = ErrorResponse(tasks[t].reason)]]
    /\ writer' = {}
    /\ UNCHANGED <<active_users, rooms, room_blocks, next_room_id, readers,
                   handler_owner, requests>>

handle_web_rtc_request_parse(t) == Task(t, "web_rtc", "start") /\ ParseFirst(t)

\* The validity check made under a read guard that is given up before the
\* relay.
handle_web_rtc_request_validate_dropping_guard(t) ==
    /\ Task(t, "web_rtc", "await_read")
    /\ CanRead
    /\ readers' = IF web_rtc_request_is_valid(tasks[t].room_id, tasks[t].peer_id,
                                              tasks[t].requester_id)
                  THEN readers ELSE readers \cup {t}
    /\ tasks' = [tasks EXCEPT ![t] =
            IF web_rtc_request_is_valid(@.room_id, @.peer_id, @.requester_id)
            THEN [@ EXCEPT !.pc = "relaying"]
            ELSE [@ EXCEPT !.pc = "rejecting", !.reason = FailureReason(tasks[t])]]
    /\ UNCHANGED <<active_users, rooms, room_blocks, next_room_id, writer,
                   handler_owner, outbox, requests>>

\* handle_web_rtc_request: the read guard and web_rtc_request_is_valid
handle_web_rtc_request_validate(t) ==
    /\ Task(t, "web_rtc", "await_read")
    /\ CanRead
    /\ readers' = readers \cup {t}
    /\ tasks' = [tasks EXCEPT ![t] =
            IF web_rtc_request_is_valid(@.room_id, @.peer_id, @.requester_id)
            THEN [@ EXCEPT !.pc = "relaying"]
            ELSE [@ EXCEPT !.pc = "rejecting", !.reason = FailureReason(tasks[t])]]
    /\ UNCHANGED <<active_users, rooms, room_blocks, next_room_id, writer,
                   handler_owner, outbox, requests>>

\* handle_web_rtc_specific_requests(..).await, then the return drops the
\* read guard
handle_web_rtc_request_relay(t) ==
    /\ Task(t, "web_rtc", "relaying")
    /\ readers' = readers \ {t}
    /\ tasks' = [tasks EXCEPT ![t] =
            [@ EXCEPT !.pc = "done", !.outcome = "relayed"]]
    /\ UNCHANGED <<active_users, rooms, room_blocks, next_room_id, writer,
                   handler_owner, outbox, requests>>

\* data_fetcher::get_follower_user_ids_for_user / get_following_..:
\* (encountered_error, user ids)
get_follow_user_ids_for_user(peer_id) ==
    {<<FALSE, UserIds \ {peer_id}>>, <<TRUE, {}>>}

\* get_followers_or_following_list: the handler guard, the parse, the fetch.
\* The guard is kept until the function returns.
get_followers_or_following_list_fetch(t) ==
    /\ Task(t, "get_follow_list", "start")
    /\ handler_owner = {}
    /\ IF ~tasks[t].parse_ok
       THEN /\ tasks' = [tasks EXCEPT ![t] =
                    [@ EXCEPT !.pc = "done", !.outcome = "parse_err"]]
            /\ UNCHANGED handler_owner
       ELSE /\ handler_owner' = {t}
            /\ \E target \in get_follow_user_ids_for_user(tasks[t].peer_id) :
                tasks' = [tasks EXCEPT ![t] =
                    [@ EXCEPT !.pc = "await_write_follow",
                              !.response = BasicResponse("follow_list",
                                    <<target[2], tasks[t].peer_id>>)]]
    /\ UNCHANGED <<active_users, rooms, room_blocks, next_room_id, readers,
                   writer, outbox, requests>>

\* communication_handler_helpers::send_follow_list behind the write guard
send_follow_list(t) ==
    /\ Task(t, "get_follow_list", "writing_follow")
    /\ outbox' = send_to_requester_channel(
                    tasks[t].response.response_containing_data,
                    tasks[t].requester_id,
                    tasks[t].response.response_op_code)
    /\ tasks' = [tasks EXCEPT ![t] =
            [@ EXCEPT !.pc = "done", !.outcome = "answered"]]
    /\ writer' = {}
    /\ handler_owner' = handler_owner \ {t}
    /\ UNCHANGED <<active_users, rooms, room_blocks, next_room_id, readers,
                   requests>>

\* ---------------------------------------------------------- get_top_rooms
\* Room.amount_of_users, which the room handler keeps equal to the number
\* of user ids of the room
amount_of_users(room) == Cardinality(room.user_ids)

\* all_rooms.sort_by_key(|room| room.amount_of_users) over the values of the
\* room map, whose iteration order is arbitrary: every arrangement of the
\* rooms in which the key never decreases
sort_by_key(room_ids) ==
    {order \in [1..Cardinality(room_ids) -> room_ids] :
        /\ \A i, j \in DOMAIN order : i # j => order[i] # order[j]
        /\ \A i, j \in DOMAIN order :
                i < j => amount_of_users(rooms[order[i]])
                            <= amount_of_users(rooms[order[j]])}

\* communication_handler_helpers::construct_communication_room pushes the
\* room as it is sent to clients
construct_communication_room(room_id) ==
    [room_id |-> room_id,
     num_of_people_in_room |-> amount_of_users(rooms[room_id]),
     creator_id |-> rooms[room_id].owner_user_id]

\* data_fetcher::get_user_previews_for_users and get_room_owner_and_settings:
\* the encountered_error flags of the two results
get_user_previews_and_owner(room_id) == BOOLEAN \X BOOLEAN

\* The test of the two results that looks at the previews only.
encountered_errors_previews_only(result) == result[1]

\* get_top_rooms: if previews.0 || owner_data_and_chat_mode.0 { continue; }
encountered_errors(result) == result[1] \/ result[2]

\* get_top_rooms: the read guard, the rooms, the sort
get_top_rooms_read(t) ==
    /\ Task(t, "get_top_rooms", "start")
    /\ CanRead
    /\ readers' = readers \cup {t}
    /\ \E order \in sort_by_key(DOMAIN rooms) :
        tasks' = [tasks EXCEPT ![t] =
            [@ EXCEPT !.pc = "await_handler_top",
                      !.all_rooms = order,
                      !.snapshot = [r \in DOMAIN rooms |->
                                        amount_of_users(rooms[r])]]]
    /\ UNCHANGED <<active_users, rooms, room_blocks, next_room_id, writer,
                   handler_owner, outbox, requests>>

\* after the loop: drop(handler), drop(read_state), up to write().await
get_top_rooms_loop(t, todo, added, failed) ==
    IF todo = <<>>
    THEN /\ handler_owner' = {}
         /\ readers' = readers \ {t}
         /\ tasks' = [tasks EXCEPT ![t] =
                [@ EXCEPT !.pc = "await_write_top", !.all_rooms = todo,
                          !.communication_rooms = @ \o added,
                          !.fetch_errors = @ \cup failed]]
    ELSE /\ handler_owner' = {t}
         /\ UNCHANGED readers
         /\ tasks' = [tasks EXCEPT ![t] =
                [@ EXCEPT !.pc = "fetching", !.all_rooms = todo,
                          !.communication_rooms = @ \o added,
                          !.fetch_errors = @ \cup failed]]

\* get_top_rooms: execution_handler.lock().await is granted
get_top_rooms_lock(t) ==
    /\ Task(t, "get_top_rooms", "await_handler_top")
    /\ handler_owner = {}
    /\ get_top_rooms_loop(t, tasks[t].all_rooms, <<>>, {})
    /\ UNCHANGED <<active_users, rooms, room_blocks, next_room_id, writer,
                   outbox, requests>>

\* get_top_rooms: the two fetches for the next room; a room with an error
\* in either is skipped
get_top_rooms_fetch(t) ==
    /\ Task(t, "get_top_rooms", "fetching")
    /\ LET room_id == Head(tasks[t].all_rooms) IN
        \E result \in get_user_previews_and_owner(room_id) :
            get_top_rooms_loop(t, Tail(tasks[t].all_rooms),
                IF encountered_errors(result) THEN <<>>
                ELSE <<construct_communication_room(room_id)>>,
                IF TRUE \in {result[1], result[2]} THEN {room_id} ELSE {})
    /\ UNCHANGED <<active_users, rooms, room_blocks, next_room_id, writer,
                   outbox, requests>>

\* The response sent, and the rooms whose fetch failed taken out of the
\* room map behind the same write guard.
get_top_rooms_send_pruning(t) ==
    /\ Task(t, "get_top_rooms", "writing_top")
    /\ outbox' = send_to_requester_channel(tasks[t].communication_rooms,
                                           tasks[t].requester_id, "top_rooms")
    /\ tasks' = [tasks EXCEPT ![t] =
            [@ EXCEPT !.pc = "done", !.outcome = "answered",
                      !.sent = @ + 1,
                      !.delivered = IsUser(tasks[t].requester_id),
                      !.response = BasicResponse("top_rooms",
                                        tasks[t].communication_rooms)]]
    /\ writer' = {}
    /\ rooms' = [r \in DOMAIN rooms \ tasks[t].fetch_errors |-> rooms[r]]
    /\ UNCHANGED <<active_users, room_blocks, next_room_id, readers,
                   handler_owner, requests>>

\* get_top_rooms: the response, sent behind the write guard
get_top_rooms_send(t) ==
    /\ Task(t, "get_top_rooms", "writing_top")
    /\ outbox' = send_to_requester_channel(tasks[t].communication_rooms,
                                           tasks[t].requester_id, "top_rooms")
    /\ tasks' = [tasks EXCEPT ![t] =
            [@ EXCEPT !.pc = "done", !.outcome = "answered",
                      !.sent = @ + 1,
                      !.delivered = IsUser(tasks[t].requester_id),
                      !.response = BasicResponse("top_rooms",
                                        tasks[t].communication_rooms)]]
    /\ writer' = {}
    /\ UNCHANGED <<active_users, rooms, room_blocks, next_room_id, readers,
                   handler_owner, requests>>

\* ------------------------------------------------------ the specification
Next ==
    \/ \E u \in UserIds : Disconnect(u)
    \/ \E t \in TaskIds, op \in Ops, u \in UserIds :
            \E payload \in Payloads(op) \cup {Malformed} :
                requests < MaxRequests /\ Start(t, op, u, payload)
    \/ \E t \in TaskIds : create_room_parse(t)
    \/ \E t \in TaskIds : create_room_validate(t)
    \/ \E t \in TaskIds : create_room_commit(t)
    \/ \E t \in TaskIds : block_user_from_room_parse(t)
    \/ \E t \in TaskIds : block_user_from_room_validate(t)
    \/ \E t \in TaskIds : block_user_from_room_commit(t)
    \/ \E t \in TaskIds : join_room_validate(t)
    \/ \E t \in TaskIds : join_room_fetch(t)
    \/ \E t \in TaskIds : join_room_commit(t)
    \/ \E t \in TaskIds : add_or_remove_speaker_validate(t)
    \/ \E t \in TaskIds : add_or_remove_speaker_commit(t)
    \/ \E t \in TaskIds : raise_hand_or_lower_hand_validate(t)
    \/ \E t \in TaskIds : raise_hand_or_lower_hand_commit(t)
    \/ \E t \in TaskIds : handle_web_rtc_request_parse(t)
    \/ \E t \in TaskIds : handle_web_rtc_request_validate(t)
    \/ \E t \in TaskIds : handle_web_rtc_request_relay(t)
    \/ \E t \in TaskIds : get_followers_or_following_list_fetch(t)
    \/ \E t \in TaskIds : send_follow_list(t)
    \/ \E t \in TaskIds : drop_read_state(t)
    \/ \E t \in TaskIds : send_error_response_drop(t)
    \/ \E t \in TaskIds : acquire_write(t)
    \/ \E t \in TaskIds : send_error_response_to_requester(t)

Spec == Init /\ [][Next]_vars

\* The server some time later: every room id names a room that its creator
\* (the user of the same id) still owns alone, the other users are connected
\* and in no room, and some of them were blocked from rooms they had joined.
\* From there, join requests and disconnects.
JoinInit ==
    /\ active_users = [u \in UserIds |->
            [current_room_id |-> IF u \in RoomIds THEN u ELSE NoRoom]]
    /\ \E pub \in [RoomIds -> BOOLEAN] :
            rooms = [r \in RoomIds |-> NewRoom(r, pub[r])]
    /\ room_blocks \in [RoomIds -> SUBSET (UserIds \ RoomIds)]
    /\ next_room_id = MaxRooms + 1
    /\ readers = {}
    /\ writer = {}
    /\ handler_owner = {}
    /\ tasks = [t \in TaskIds |-> IdleTask]
    /\ outbox = [u \in UserIds |-> {}]
    /\ requests = 0

JoinNext ==
    \/ \E u \in UserIds : Disconnect(u)
    \/ \E t \in TaskIds, u \in UserIds :
            \E payload \in Payloads("join_room") :
                requests < MaxJoinRequests /\ Start(t, "join_room", u, payload)
    \/ \E t \in TaskIds : join_room_validate(t)
    \/ \E t \in TaskIds : join_room_fetch(t)
    \/ \E t \in TaskIds : join_room_commit(t)
    \/ \E t \in TaskIds : drop_read_state(t)
    \/ \E t \in TaskIds : send_error_response_drop(t)
    \/ \E t \in TaskIds : acquire_write(t)
    \/ \E t \in TaskIds : send_error_response_to_requester(t)

JoinSpec == JoinInit /\ [][JoinNext]_vars

\* The server with rooms in use: users 1 and 2 are in rooms, user 3 is in a
\* third room, in the room of user 2 or in none; every room is public and
\* owned by its member of lowest id.  From there, requests for the top
\* rooms, for follow lists, WebRTC requests, joins and disconnects.
TopPlacements ==
    {[u \in UserIds |-> IF u <= 3 THEN place[u] ELSE NoRoom] :
        place \in {<<1, 2, 3>>, <<1, 2, 2>>, <<1, 2, NoRoom>>, <<1, 1, NoRoom>>}}

TopMembers(place, r) == {u \in UserIds : place[u] = r}

TopInit ==
    /\ \E place \in TopPlacements :
        /\ active_users = [u \in UserIds |-> [current_room_id |-> place[u]]]
        /\ rooms = [r \in {x \in TopRoomIds : TopMembers(place, x) # {}} |->
                [NewRoom(CHOOSE o \in TopMembers(place, r) :
                            \A u \in TopMembers(place, r) : o <= u, TRUE)
                    EXCEPT !.user_ids = TopMembers(place, r)]]
    /\ room_blocks = [r \in TopRoomIds |-> {}]
    /\ next_room_id = MaxTopRooms + 1
    /\ readers = {}
    /\ writer = {}
    /\ handler_owner = {}
    /\ tasks = [t \in TaskIds |-> IdleTask]
    /\ outbox = [u \in UserIds |-> {}]
    /\ requests = 0

TopOps == {"get_top_rooms", "join_room", "get_follow_list", "web_rtc"}

\* the requests of user u in TopSpec: about u itself
TopPayloads(op, u) ==
    IF op = "get_top_rooms"
    THEN {[parse_ok |-> TRUE, room_id |-> 0, peer_id |-> 0, public |-> FALSE]}
    ELSE IF op = "join_room"
    THEN {payload \in Payloads(op) : payload.peer_id = u}
    ELSE {payload \in Payloads(op) : payload.peer_id = u} \cup {Malformed}

TopNext ==
    \/ \E u \in UserIds : Disconnect(u)
    \/ \E t \in TaskIds, op \in TopOps, u \in UserIds :
            \E payload \in TopPayloads(op, u) :
                requests < MaxTopRequests /\ Start(t, op, u, payload)
    \/ \E t \in TaskIds : get_top_rooms_read(t)
    \/ \E t \in TaskIds : get_top_rooms_lock(t)
    \/ \E t \in TaskIds : get_top_rooms_fetch(t)
    \/ \E t \in TaskIds : get_top_rooms_send(t)
    \/ \E t \in TaskIds : join_room_validate(t)
    \/ \E t \in TaskIds : join_room_fetch(t)
    \/ \E t \in TaskIds : join_room_commit(t)
    \/ \E t \in TaskIds : handle_web_rtc_request_parse(t)
    \/ \E t \in TaskIds : handle_web_rtc_request_validate(t)
    \/ \E t \in TaskIds : handle_web_rtc_request_relay(t)
    \/ \E t \in TaskIds : get_followers_or_following_list_fetch(t)
    \/ \E t \in TaskIds : send_follow_list(t)
    \/ \E t \in TaskIds : drop_read_state(t)
    \/ \E t \in TaskIds : send_error_response_drop(t)
    \/ \E t \in TaskIds : acquire_write(t)
    \/ \E t \in TaskIds : send_error_response_to_requester(t)

TopSpec == TopInit /\ [][TopNext]_vars

\* The server with one room in use: user 1 owns room 1 and user 2 has
\* joined it; user 3 is connected and in no room.  From there, requests to
\* block a user, to add or remove a speaker, to raise or lower a hand, and
\* disconnects.
RoleInit ==
    /\ active_users = [u \in UserIds |->
            [current_room_id |-> IF u \in {1, 2} THEN 1 ELSE NoRoom]]
    /\ rooms = (1 :> [NewRoom(1, TRUE) EXCEPT !.user_ids = {1, 2}])
    /\ room_blocks = [r \in RoomIds |-> {}]
    /\ next_room_id = MaxRooms + 1
    /\ readers = {}
    /\ writer = {}
    /\ handler_owner = {}
    /\ tasks = [t \in TaskIds |-> IdleTask]
    /\ outbox = [u \in UserIds |-> {}]
    /\ requests = 0

RoleNext ==
    \/ \E u \in UserIds : Disconnect(u)
    \/ \E t \in TaskIds, op \in RoleOps, u \in UserIds :
            \E payload \in Payloads(op) :
                requests < MaxRoleRequests /\ Start(t, op, u, payload)
    \/ \E t \in TaskIds : block_user_from_room_parse(t)
    \/ \E t \in TaskIds : block_user_from_room_validate(t)
    \/ \E t \in TaskIds : block_user_from_room_commit(t)
    \/ \E t \in TaskIds : add_or_remove_speaker_validate(t)
    \/ \E t \in TaskIds : add_or_remove_speaker_commit(t)
    \/ \E t \in TaskIds : raise_hand_or_lower_hand_validate(t)
    \/ \E t \in TaskIds : raise_hand_or_lower_hand_commit(t)
    \/ \E t \in TaskIds : drop_read_state(t)
    \/ \E t \in TaskIds : send_error_response_drop(t)
    \/ \E t \in TaskIds : acquire_write(t)
    \/ \E t \in TaskIds : send_error_response_to_requester(t)

RoleSpec == RoleInit /\ [][RoleNext]_vars

\* ------------------------------------------------------------ type check
TypeOK ==
    /\ DOMAIN active_users \subseteq UserIds
    /\ DOMAIN rooms \subseteq RoomIds \cup TopRoomIds
    /\ Cardinality(writer) <= 1
    /\ Cardinality(handler_owner) <= 1
    /\ requests \in 0..(MaxRequests + MaxJoinRequests)
    /\ next_room_id \in 1..(MaxRooms + MaxTopRooms + 1)

\* ================================================================ claims
Done(t) == tasks[t].pc = "done"

RoomIdSets(r) ==
    rooms[r].user_ids \cup rooms[r].muted \cup rooms[r].deaf
        \cup rooms[r].speakers \cup rooms[r].raised_hands

\* C1: in every reachable state every id in a room's user_ids, muted, deaf,
\* speaker or raised-hand set is a key of the user map, and every user whose
\* current_room_id is not -1 names an existing room whose user_ids holds it.
C1_CrossEntityConsistency ==
    /\ \A r \in DOMAIN rooms : RoomIdSets(r) \subseteq DOMAIN active_users
    /\ \A u \in DOMAIN active_users :
            active_users[u].current_room_id # NoRoom =>
                /\ IsRoom(active_users[u].current_room_id)
                /\ u \in rooms[active_users[u].current_room_id].user_ids

\* C2: in every reachable state no user id is in the user_ids of two
\* different rooms.
C2_AtMostOneRoom ==
    \A r1 \in DOMAIN rooms, r2 \in DOMAIN rooms :
        r1 # r2 => rooms[r1].user_ids \cap rooms[r2].user_ids = {}

\* C4: whenever the room handler was run for a mutating request, the
\* request's Table 1 precondition held in the state it was run on.
C4_NoCommitOnStaleValidation ==
    \A t \in TaskIds :
        (Done(t) /\ tasks[t].outcome = "mutated") => tasks[t].pre_at_commit

\* C3: two join requests for the same user (in no room, not blocked) for
\* two different existing public rooms that run concurrently: exactly one
\* is handed to the room handler and the other is rejected; both never
\* succeed, and the pair never ends up with neither outcome.
JoinRace(t1, t2) ==
    /\ t1 # t2
    /\ tasks[t1].op = "join_room" /\ tasks[t2].op = "join_room"
    /\ tasks[t1].peer_id = tasks[t2].peer_id
    /\ tasks[t1].room_id # tasks[t2].room_id
    /\ tasks[t1].pre_at_validation /\ tasks[t2].pre_at_validation

\* t1 keeps the handler guard and waits for the write guard, t2 keeps its
\* read guard and waits for the handler guard
JoinStuck(t1, t2) ==
    /\ tasks[t1].pc = "await_write" /\ t1 \in handler_owner
    /\ tasks[t2].pc = "await_handler" /\ t2 \in readers

C3_DoubleJoinOneWins ==
    \A t1 \in TaskIds, t2 \in TaskIds :
        JoinRace(t1, t2) =>
            /\ ~(tasks[t1].outcome = "mutated" /\ tasks[t2].outcome = "mutated")
            /\ (Done(t1) /\ Done(t2)) =>
                    {tasks[t1].outcome, tasks[t2].outcome} = {"mutated", "rejected"}
            /\ ~JoinStuck(t1, t2)

\* Two joins that block each other stay blocked: no step of the system
\* changes either of them.
JoinStuckIsForever ==
    [][\A t1 \in TaskIds, t2 \in TaskIds :
            JoinStuck(t1, t2) =>
                /\ JoinStuck(t1, t2)'
                /\ tasks'[t1] = tasks[t1] /\ tasks'[t2] = tasks[t2]]_vars

\* C5: a request whose payload does not parse ends with the uniform
\* rejection delivered to the requester.
C5_MalformedPayloadRejected ==
    \A t \in TaskIds :
        (Done(t) /\ ~tasks[t].parse_ok) =>
            /\ tasks[t].outcome = "rejected"
            /\ tasks[t].rejections = 1

\* C6: a mutating request whose precondition is false when it is validated
\* ends with exactly one rejection and without the room handler.
C6_PreconditionFailureRejected ==
    \A t \in TaskIds :
        (/\ Done(t)
         /\ tasks[t].op \in MutatingOps
         /\ tasks[t].parse_ok
         /\ ~tasks[t].pre_at_validation) =>
            /\ tasks[t].outcome = "rejected"
            /\ tasks[t].rejections = 1

\* C8: a join request whose peer id is in the blocked set of the target room
\* is never handed to the room handler and always ends in the rejection.
C8_BlockedJoinRejected ==
    [][\A t \in TaskIds :
            (/\ tasks[t].op = "join_room"
             /\ tasks[t].parse_ok
             /\ tasks[t].peer_id \in room_blocks[tasks[t].room_id]
             /\ ~Done(t)
             /\ Done(t)') => tasks'[t].outcome = "rejected"]_vars

\* C7: every rejection delivered to a requester is the same message, tag
\* "invalid_request" and payload "issue with request", whatever the
\* operation and whichever check failed.
UniformRejection == BasicResponse("invalid_request", "issue with request")

C7_UniformRejectionNonDisclosing ==
    /\ \A t1 \in TaskIds, t2 \in TaskIds :
            (/\ Done(t1) /\ tasks[t1].outcome = "rejected"
             /\ Done(t2) /\ tasks[t2].outcome = "rejected"
             /\ tasks[t1].requester_id = tasks[t2].requester_id) =>
                tasks[t1].response = tasks[t2].response
    /\ \A t \in TaskIds :
            (Done(t) /\ tasks[t].outcome = "rejected") =>
                tasks[t].response = UniformRejection
    /\ \A u \in UserIds : \A m \in outbox[u] :
            m.response_op_code # "follow_list" => m = UniformRejection

\* Two requests of one user, of different operations, rejected for
\* different reasons, with the rejection in the user's connection.
C7_Witness ==
    \E t1 \in TaskIds, t2 \in TaskIds :
        /\ Done(t1) /\ tasks[t1].outcome = "rejected"
        /\ Done(t2) /\ tasks[t2].outcome = "rejected"
        /\ tasks[t1].requester_id = tasks[t2].requester_id
        /\ tasks[t1].op # tasks[t2].op
        /\ tasks[t1].reason # tasks[t2].reason
        /\ UniformRejection \in outbox[tasks[t1].requester_id]

\* C9: for add/remove speaker, raise/lower hand and block user, the room
\* handler is run only if, when the request was validated, the room existed
\* and held both the requester and the target; otherwise the request is
\* rejected and no step of it changes a room or a user.
RoleTask(t) == tasks[t].op \in RoleOps /\ tasks[t].parse_ok

BothInRoomNow(k) ==
    /\ k.room_id \in DOMAIN rooms
    /\ k.requester_id \in rooms[k.room_id].user_ids
    /\ k.peer_id \in rooms[k.room_id].user_ids

C9_Gate ==
    \A t \in TaskIds : RoleTask(t) =>
        /\ tasks[t].pc = "validated" => BothInRoomNow(tasks[t])
        /\ tasks[t].pc = "rejecting" => ~BothInRoomNow(tasks[t])
        /\ (tasks[t].pc \in {"validated", "await_write", "writing"}
                \/ tasks[t].outcome = "mutated") => tasks[t].pre_at_validation
        /\ (tasks[t].pc \in {"rejecting", "await_write_err", "writing_err"}
                \/ tasks[t].outcome = "rejected") => ~tasks[t].pre_at_validation
        /\ Done(t) => tasks[t].outcome \in {"mutated", "rejected"}

C9_MembershipGating ==
    /\ []C9_Gate
    /\ [][\A t \in TaskIds :
            (/\ RoleTask(t)
             /\ tasks[t].pc # "writing"
             /\ tasks'[t] # tasks[t]) => UNCHANGED <<rooms, active_users>>]_vars

\* An add_speaker for a user that is not in the existing room was rejected,
\* and the room has no speaker.
C9_Witness ==
    \E t \in TaskIds :
        /\ tasks[t].op = "add_speaker" /\ tasks[t].parse_ok
        /\ Done(t) /\ tasks[t].outcome = "rejected"
        /\ tasks[t].reason = "not_member"
        /\ IsRoom(tasks[t].room_id)
        /\ tasks[t].requester_id \in rooms[tasks[t].room_id].user_ids
        /\ tasks[t].peer_id \notin rooms[tasks[t].room_id].user_ids
        /\ rooms[tasks[t].room_id].speakers = {}

\* C10: a create-room with public = true by a user that is in no room makes
\* a new room with that user in it; a join-room by another user, in no room
\* and not blocked in that room, is accepted and makes that user a member.
CreateMakesRoom(t) ==
    (/\ Task(t, "create_room", "writing")
     /\ Done(t)'
     /\ tasks[t].public
     /\ IsUser(tasks[t].requester_id)
     /\ active_users[tasks[t].requester_id].current_room_id = NoRoom) =>
        /\ next_room_id \notin DOMAIN rooms
        /\ next_room_id \in DOMAIN rooms'
        /\ rooms'[next_room_id].public
        /\ tasks[t].requester_id \in rooms'[next_room_id].user_ids
        /\ active_users'[tasks[t].requester_id].current_room_id = next_room_id

JoinOfSelf(t) ==
    /\ tasks[t].op = "join_room" /\ tasks[t].parse_ok
    /\ tasks[t].peer_id = tasks[t].requester_id

JoinPassesFirstCheck(t) ==
    (/\ JoinOfSelf(t)
     /\ tasks[t].pc = "start" /\ tasks'[t].pc # "start"
     /\ IsRoom(tasks[t].room_id)
     /\ rooms[tasks[t].room_id].public
     /\ IsUser(tasks[t].peer_id)
     /\ active_users[tasks[t].peer_id].current_room_id = NoRoom) =>
        tasks'[t].pc = "await_handler"

JoinAdmits(t) ==
    (/\ JoinOfSelf(t)
     /\ tasks[t].pc = "writing" /\ Done(t)'
     /\ IsRoom(tasks[t].room_id)
     /\ IsUser(tasks[t].peer_id)) =>
        /\ tasks'[t].outcome = "mutated"
        /\ tasks[t].peer_id \in rooms'[tasks[t].room_id].user_ids
        /\ active_users'[tasks[t].peer_id].current_room_id = tasks[t].room_id

TopRoomsTask(t) == tasks[t].op = "get_top_rooms"

WritingPcs == {WritingPc(pc) : pc \in AwaitWritePcs}

C12_LockDiscipline ==
    /\ Cardinality(writer) <= 1
    /\ writer # {} => readers = {}
    /\ readers \cap writer = {}
    /\ \A t \in TaskIds :
        /\ tasks[t].pc \in AwaitWritePcs \cup WritingPcs => t \notin readers
        /\ t \in writer <=> tasks[t].pc \in WritingPcs
        /\ Finished(t) => t \notin readers \cup writer

\* A get_top_rooms holds the write guard for its response while a join that
\* passed its checks has dropped its read guard and waits for the write
\* guard.
C12_Witness ==
    \E t1 \in TaskIds, t2 \in TaskIds :
        /\ writer = {t1} /\ readers = {}
        /\ tasks[t1].op = "get_top_rooms" /\ tasks[t1].pc = "writing_top"
        /\ tasks[t2].op = "join_room" /\ tasks[t2].pc = "await_write"

\* C13: a mutating request that has ended either had the room handler run
\* for it or had one rejection sent for it, never both and never neither,
\* whatever its payload and the ids in it; it did not end in a panic or
\* without an answer.
C13_CompleteOrReject ==
    \A t \in TaskIds :
        (Done(t) /\ tasks[t].op \in MutatingOps) =>
            \/ tasks[t].outcome = "mutated" /\ tasks[t].rejections = 0
            \/ tasks[t].outcome = "rejected" /\ tasks[t].rejections = 1

\* C14: between the step in which a mutating task gets the write guard and
\* the end of its room handler call nothing of another task is interleaved;
\* in particular no other task gets the guard of the execution handler
\* while the mutating task is inside its exclusive section.
C14_AtomicMutation ==
    [][\A t \in TaskIds :
            (/\ t \in writer
             /\ tasks[t].op \in MutatingOps
             /\ tasks[t].pc = "writing") =>
                \A s \in TaskIds \ {t} :
                    s \in handler_owner' => s \in handler_owner]_vars

\* C15: a rejection or a top-rooms response is written to a connection only
\* in a step of a task that holds the write guard; while a task is about to
\* deliver, no user leaves the user map; the delivery adds the response to
\* the requester's connection if the requester is still a user and does
\* nothing otherwise; it leaves users and rooms as they are.
DeliveryPcs == {"writing_err", "writing_top"}

Delivers(t) == tasks[t].pc \in DeliveryPcs /\ tasks'[t].pc = "done"

C15_DeliveryUnderWriteGuard ==
    [][/\ \A t \in TaskIds :
            /\ tasks[t].pc \in DeliveryPcs =>
                    DOMAIN active_users' = DOMAIN active_users
            /\ Delivers(t) =>
                /\ writer = {t}
                /\ readers = {}
                /\ UNCHANGED <<active_users, rooms>>
                /\ IF IsUser(tasks[t].requester_id)
                   THEN outbox' = [outbox EXCEPT ![tasks[t].requester_id] =
                                        @ \cup {tasks'[t].response}]
                   ELSE outbox' = outbox
       /\ \A u \in UserIds :
            (\E m \in outbox'[u] \ outbox[u] :
                    m.response_op_code \in {"invalid_request", "top_rooms"}) =>
                \E t \in TaskIds :
                    Delivers(t) /\ writer = {t} /\ tasks[t].requester_id = u]_vars

\* A rejection was written to its requester's connection, and the top-rooms
\* response of a requester that had disconnected went nowhere.
C15_Witness ==
    \E t1 \in TaskIds, t2 \in TaskIds :
        /\ Done(t1) /\ tasks[t1].outcome = "rejected" /\ tasks[t1].delivered
        /\ tasks[t1].response \in outbox[tasks[t1].requester_id]
        /\ Done(t2) /\ tasks[t2].op = "get_top_rooms"
        /\ tasks[t2].sent = 1 /\ ~tasks[t2].delivered
        /\ ~IsUser(tasks[t2].requester_id)

\* C16: a join_room whose fetch of the blocked ids reported an error is not
\* rejected for it: the check goes on as with an empty blocked set.
JoinFetchFailed(t) ==
    tasks[t].op = "join_room" /\ tasks[t].fetch_errors # {}

C16_FetchFailureDegrades ==
    \A t \in TaskIds : JoinFetchFailed(t) =>
        /\ tasks[t].pc \notin {"rejecting", "await_write_err", "writing_err"}
        /\ tasks[t].outcome # "rejected"

\* C16 as amended: a join_room whose fetch of the blocked ids reported an
\* error is rejected: the room handler is not run for it and, once it has
\* ended, one rejection was sent.
C16_FetchFailureRejects ==
    \A t \in TaskIds : JoinFetchFailed(t) =>
        /\ tasks[t].pc \in {"rejecting", "await_write_err", "writing_err", "done"}
        /\ tasks[t].reason = "fetch_err"
        /\ t \notin handler_owner
        /\ Done(t) => tasks[t].outcome = "rejected" /\ tasks[t].rejections = 1

\* A join of a user that is in no room and is not blocked, for a public
\* room, was rejected after the fetch had failed; the user is in no room.
C16_Witness ==
    \E t \in TaskIds :
        /\ JoinFetchFailed(t) /\ Done(t)
        /\ tasks[t].pre_at_validation
        /\ tasks[t].outcome = "rejected"
        /\ IsRoom(tasks[t].room_id) /\ IsUser(tasks[t].peer_id)
        /\ tasks[t].peer_id \notin room_blocks[tasks[t].room_id]
        /\ tasks[t].peer_id \notin rooms[tasks[t].room_id].user_ids
        /\ active_users[tasks[t].peer_id].current_room_id = NoRoom

\* C17: concurrent requests on a room end as if each had been run whole,
\* check and room handler, at the moment it got the write guard, in the
\* order of those moments: a request is accepted exactly if its precondition
\* holds in the state it finds behind the write guard, and so the rooms
\* never hold a speaker or a raised hand of a user that is not a member.
C17_PerRoomLinearization ==
    /\ \A t \in TaskIds :
        (Done(t) /\ tasks[t].op \in RoleOps /\ tasks[t].parse_ok) =>
            /\ tasks[t].outcome = "mutated" => tasks[t].pre_at_commit
            /\ tasks[t].outcome = "rejected" => ~tasks[t].pre_at_commit
    /\ \A r \in DOMAIN rooms :
            rooms[r].speakers \cup rooms[r].raised_hands \subseteq rooms[r].user_ids

\* C18: no step of a get_top_rooms, a follow-list request or a WebRTC
\* request changes the user map or the room map, whether the request is
\* answered, meets a fetch error, does not parse or is rejected.
C18_ReadOnlyOpsFrame ==
    [][\A t \in TaskIds :
            (/\ tasks[t].op \in FetchOps
             /\ ~Finished(t)
             /\ tasks'[t] # tasks[t]) => UNCHANGED <<active_users, rooms>>]_vars

\* A get_top_rooms that met a fetch error was answered through the write
\* guard and a WebRTC request was rejected, with the rooms still there.
C18_Witness ==
    \E t1 \in TaskIds, t2 \in TaskIds :
        /\ Done(t1) /\ tasks[t1].op = "get_top_rooms"
        /\ tasks[t1].fetch_errors # {} /\ tasks[t1].sent = 1
        /\ Done(t2) /\ tasks[t2].op = "web_rtc" /\ tasks[t2].outcome = "rejected"
        /\ DOMAIN tasks[t1].snapshot = DOMAIN rooms
        /\ \A r \in DOMAIN rooms :
                amount_of_users(rooms[r]) = tasks[t1].snapshot[r]

\* C19: the two locks are never held in a cycle: no task waits for the
\* write guard of the server state with the guard of the execution handler
\* in hand while a task that holds a read guard waits for the execution
\* handler.  (From such a state neither task takes a step again.)
LockCycle(t1, t2) ==
    /\ t1 \in handler_owner
    /\ tasks[t1].pc \in AwaitWritePcs
    /\ t2 \in readers
    /\ tasks[t2].pc \in {"await_handler", "await_handler_top"}

C19_NoLockCycle ==
    \A t1 \in TaskIds, t2 \in TaskIds : ~LockCycle(t1, t2)

LockCycleIsForever ==
    [][\A t1 \in TaskIds, t2 \in TaskIds :
            LockCycle(t1, t2) =>
                /\ LockCycle(t1, t2)'
                /\ tasks'[t1] = tasks[t1]
                /\ tasks'[t2] = tasks[t2]]_vars

\* C20: the room handler's create_room is run for a request only if, when
\* the request was checked under the read guard, the requester was a key of
\* the user map with current_room_id = -1; a requester that is absent or in
\* a room gets the uniform rejection, and no step of the request but the
\* room handler call creates a room or changes a user.
CreateTask(t) == tasks[t].op = "create_room" /\ tasks[t].parse_ok

InNoRoomNow(k) ==
    /\ k.requester_id \in DOMAIN active_users
    /\ active_users[k.requester_id].current_room_id = -1

C20_Gate ==
    \A t \in TaskIds : CreateTask(t) =>
        /\ tasks[t].pc = "validated" => InNoRoomNow(tasks[t])
        /\ tasks[t].pc = "rejecting" => ~InNoRoomNow(tasks[t])
        /\ (tasks[t].pc \in {"validated", "await_write", "writing"}
                \/ tasks[t].outcome = "mutated") => tasks[t].pre_at_validation
        /\ (tasks[t].pc \in {"rejecting", "await_write_err", "writing_err"}
                \/ tasks[t].outcome = "rejected") => ~tasks[t].pre_at_validation
        /\ Done(t) => tasks[t].outcome \in {"mutated", "rejected"}
        /\ (Done(t) /\ tasks[t].outcome = "rejected") =>
                /\ tasks[t].rejections = 1
                /\ tasks[t].response =
                        BasicResponse("invalid_request", "issue with request")

C20_CreateRoomGating ==
    /\ []C20_Gate
    /\ [][\A t \in TaskIds :
            (/\ CreateTask(t)
             /\ tasks[t].pc # "writing"
             /\ tasks'[t] # tasks[t]) =>
                UNCHANGED <<rooms, active_users, next_room_id>>]_vars

\* A create_room of a user that is in a room already was rejected; the room
\* the user is in is the only room.
C20_Witness ==
    \E t \in TaskIds :
        /\ CreateTask(t) /\ Done(t)
        /\ tasks[t].outcome = "rejected" /\ tasks[t].reason = "in_room"
        /\ IsUser(tasks[t].requester_id)
        /\ active_users[tasks[t].requester_id].current_room_id \in DOMAIN rooms
        /\ Cardinality(DOMAIN rooms) = 1
        /\ next_room_id = 2

\* C21: a join_room passes its checks only if the requester itself is a
\* user in no room, whoever the peerId of the payload names: while the task
\* holds the read guard it validated under and is past the first check, the
\* requester is a user whose current_room_id is -1.
JoinPastFirstCheck(t) ==
    /\ tasks[t].op = "join_room"
    /\ tasks[t].pc \in {"await_handler", "validated"}
    /\ t \in readers

C21_JoinValidatesRequester ==
    \A t \in TaskIds : JoinPastFirstCheck(t) =>
        /\ IsUser(tasks[t].requester_id)
        /\ active_users[tasks[t].requester_id].current_room_id = NoRoom

\* C22: a WebRTC request is relayed only by a task that still holds the
\* read guard under which it found the request valid, so the request is
\* still valid and no user or room changes while the relay is under way; a
\* request found not valid is never relayed and gets one uniform rejection.
WebRtcTask(t) == tasks[t].op = "web_rtc" /\ tasks[t].parse_ok

ValidNow(k) ==
    /\ k.requester_id \in DOMAIN active_users
    /\ k.peer_id = k.requester_id
    /\ active_users[k.requester_id].current_room_id = k.room_id

C22_Gate ==
    \A t \in TaskIds : WebRtcTask(t) =>
        /\ tasks[t].pc = "relaying" =>
                t \in readers /\ writer = {} /\ ValidNow(tasks[t])
        /\ tasks[t].pc = "rejecting" => ~ValidNow(tasks[t])
        /\ tasks[t].outcome = "relayed" => tasks[t].rejections = 0
        /\ tasks[t].reason # "none" => tasks[t].outcome # "relayed"
        /\ Done(t) => tasks[t].outcome \in {"relayed", "rejected"}
        /\ (Done(t) /\ tasks[t].outcome = "rejected") =>
                /\ tasks[t].rejections = 1
                /\ tasks[t].response =
                        BasicResponse("invalid_request", "issue with request")

C22_RelayUnderReadGuard ==
    /\ []C22_Gate
    /\ [][\A t \in TaskIds :
            /\ (WebRtcTask(t) /\ tasks[t].pc = "relaying") =>
                    UNCHANGED <<active_users, rooms>>
            /\ (WebRtcTask(t) /\ tasks'[t].outcome = "relayed"
                    /\ tasks[t].outcome # "relayed") =>
                    tasks[t].pc = "relaying" /\ t \in readers]_vars

\* A WebRTC request found valid is being relayed under its read guard while
\* a join that passed its checks waits for the write guard.
C22_Witness ==
    \E t1 \in TaskIds, t2 \in TaskIds :
        /\ WebRtcTask(t1) /\ tasks[t1].pc = "relaying" /\ t1 \in readers
        /\ tasks[t2].op = "join_room" /\ tasks[t2].pc = "await_write"

====
